---- MODULE Spec2Model ----
(***************************************************************************)
(* rclone-exporter: the scheduler goroutine of main(), updateRemotes, the  *)
(* per-remote goroutines running updateRemoteBuckets, and the two          *)
(* Prometheus gauge vectors they write (src/main.go).                      *)
(*                                                                         *)
(* Time is counted in seconds and advances from one instant at which       *)
(* something can change (a ticker fire, a context deadline) to the next.   *)
(* The rclone calls (fs.NewFs, ListDir, operations.Count) are the          *)
(* environment: each call picks the backend's answer from a small set,     *)
(* and a call made on a context that is already done either returns the   *)
(* context's error or still returns the backend's answer (a call that was  *)
(* already past its last cancellation check).  A call that never returns   *)
(* is a goroutine that takes no further step.  The variable world selects  *)
(* the backends: "any" (every answer possible), "healthy" (every call      *)
(* would succeed), "outage" (only opening b: fails) or "scenario" (a fixed *)
(* two-remote installation).  shutdown and sizeWriter record history.      *)
(***************************************************************************)
EXTENDS Integers, Sequences, FiniteSets, TLC

(* -remote flag: the configured remotes, in flag order *)
Remotes == <<"a:", "b:">>

RemoteSet == {Remotes[n] : n \in 1..Len(Remotes)}

(* -update-period default, minutes *)
UpdatePeriodMinutes == 60

(* -remote-timeout default, seconds *)
RemoteTimeoutSeconds == 30

(* number of rounds the scheduler may start *)
MaxRounds == 2

(* a round is started only while at most this many goroutines of earlier
   rounds are still running *)
MaxStale == 1

Period == UpdatePeriodMinutes * 60

Timeout == RemoteTimeoutSeconds

(* last instant the clock is advanced to: the deadline of the last round *)
Horizon == (MaxRounds - 1) * Period + Timeout

Rounds == 1..MaxRounds

(* the buckets a remote can hold, in listing order *)
Content(r) == IF r = "a:" THEN <<"x", "y">> ELSE <<"x">>

BucketSet(r) == {Content(r)[n] : n \in 1..Len(Content(r))}

(* what operations.Count can find in a bucket: (files, size) *)
Vals(r, b) ==
  IF r = "a:" /\ b = "x" THEN {[files |-> 10, size |-> 1000], [files |-> 12, size |-> 1200]}
  ELSE IF r = "a:" THEN {[files |-> 5, size |-> 500]}
  ELSE {[files |-> 7, size |-> 700]}

VARIABLES now, nextTick, tickerC, sched, ctxs, units, bucketSize, bucketFileCount, world,
          sizeWriter, shutdown

(* sizeWriter is history, not program state: for each key, the round of the
   goroutine that set its size last.  shutdown: a shutdown signal has been
   sent to the process. *)
vars == <<now, nextTick, tickerC, sched, ctxs, units, bucketSize, bucketFileCount, world, sizeWriter, shutdown>>

Min(S) == CHOOSE m \in S : \A n \in S : m <= n

(* ------------------------------------------------------------------ *)
(* The backends                                                       *)
(* ------------------------------------------------------------------ *)

(* answers of fs.NewFs(ctx, remote) *)
OpenAnswers(r) ==
  CASE world \in {"scenario", "outage"} -> {[err |-> IF r = "b:" THEN "open failed" ELSE ""]}
    [] world = "healthy" -> {[err |-> ""]}
    [] OTHER -> {[err |-> ""], [err |-> "open failed"]}

(* answers of ListDir(ctx, f): any sub-listing of the remote's buckets *)
ListAnswers(r) ==
  CASE world = "scenario" -> {[err |-> "", dirs |-> <<"x">>]}
    [] world \in {"healthy", "outage"} -> {[err |-> "", dirs |-> Content(r)]}
    [] OTHER ->
         {[err |-> "", dirs |-> SelectSeq(Content(r), LAMBDA b : b \in S)] :
            S \in SUBSET BucketSet(r)}
         \cup {[err |-> "list failed", dirs |-> <<>>]}

(* answers of fs.NewFs(ctx, bucketRemote) followed by operations.Count *)
Counted(r, b) == {[err |-> "", files |-> v.files, size |-> v.size] : v \in Vals(r, b)}

CountAnswers(r, b) ==
  CASE world = "scenario" -> {[err |-> "", files |-> 10, size |-> 1000]}
    [] world \in {"healthy", "outage"} -> Counted(r, b)
    [] OTHER ->
         Counted(r, b)
         \cup {[err |-> "open failed", files |-> 0, size |-> 0],
               [err |-> "count failed", files |-> 0, size |-> 0]}

(* what a call returns: the context's error when the context is done and
   the call notices it, the backend's answer otherwise *)
Returned(cerr, noticed, ans, zero) ==
  IF cerr # "" /\ noticed THEN [zero EXCEPT !.err = cerr] ELSE ans

(* float64(n): exact for |n| <= 2^53; every value of the model is below 2^31 *)
Float64(n) == n

(* ------------------------------------------------------------------ *)
(* The gauge vectors: label values -> value, a child per key set once  *)
(* ------------------------------------------------------------------ *)

(* a gauge that is added to instead of set *)
SetGaugeAdding(g, key, v) ==
  IF key \in DOMAIN g THEN (key :> (g[key] + v)) @@ g ELSE (key :> v) @@ g

(* the gauge vector without the child of a key, without the children of a remote *)
Without(g, key) == [x \in DOMAIN g \ {key} |-> g[x]]

WithoutRemote(g, r) == [x \in {y \in DOMAIN g : y[1] # r} |-> g[x]]

(* GaugeVec.WithLabelValues(remote, bucket).Set(v) *)
SetGauge(g, key, v) == (key :> v) @@ g

(* ------------------------------------------------------------------ *)
(* One goroutine running updateRemoteBuckets(ctx, remote)             *)
(* ------------------------------------------------------------------ *)

(* no goroutine: the locals of updateRemoteBuckets at their zero values;
   fails counts the buckets this run has logged as failed *)
Idle == [pc |-> "none", dirs |-> <<>>, i |-> 0, files |-> 0, size |-> 0, fails |-> 0]

(* go updateRemoteBuckets(ctx, remote) *)
Started == [Idle EXCEPT !.pc = "NewFs"]

(* the end of the function *)
Finished == [Idle EXCEPT !.pc = "done"]

(* return after "failed creating Fs for remote" or "failed listing directories" *)
Failed == [Idle EXCEPT !.pc = "failed"]

(* a loop that starts over when it reaches the end of the listing *)
LoopRestarting(u, n) ==
  IF u.dirs = <<>> THEN Finished
  ELSE [u EXCEPT !.pc = "Count", !.i = IF n > Len(u.dirs) THEN 1 ELSE n,
                 !.files = 0, !.size = 0, !.fails = 0]

(* for _, d := range dirs: iteration n, or the end of the loop *)
Loop(u, n) ==
  IF n > Len(u.dirs) THEN Finished
  ELSE [u EXCEPT !.pc = "Count", !.i = n, !.files = 0, !.size = 0]

(* f, err := fs.NewFs(ctx, remote); if err != nil { return } *)
AfterNewFs(u, res) ==
  IF res.err # "" THEN Failed ELSE [u EXCEPT !.pc = "ListDir"]

(* dirs, err := ListDir(ctx, f); if err != nil { return } *)
AfterListDir(u, res) ==
  IF res.err # "" THEN Failed ELSE Loop([u EXCEPT !.dirs = res.dirs], 1)

(* an error that returns from the function instead of continuing the loop *)
AfterCountReturning(u, res) ==
  IF res.err # "" THEN Finished
  ELSE [u EXCEPT !.pc = "SetSize", !.files = res.files, !.size = res.size]

(* an error that tries the same bucket again *)
AfterCountRetrying(u, res) ==
  IF res.err # "" THEN [u EXCEPT !.fails = u.fails + 1]
  ELSE [u EXCEPT !.pc = "SetSize", !.files = res.files, !.size = res.size]

(* bucketFs, err := fs.NewFs(...); files, size, _, err := operations.Count(...);
   either error: continue *)
AfterCount(u, res) ==
  IF res.err # "" THEN Loop([u EXCEPT !.fails = u.fails + 1], u.i + 1)
  ELSE [u EXCEPT !.pc = "SetSize", !.files = res.files, !.size = res.size]

(* a failed open that also drops the samples of the remote *)
NewFsClearing(k, r) ==
  /\ units[k][r].pc = "NewFs"
  /\ \E ans \in OpenAnswers(r), noticed \in BOOLEAN :
       LET res == Returned(ctxs[k].err, noticed, ans, [err |-> ""])
       IN /\ units' = [units EXCEPT ![k][r] = AfterNewFs(units[k][r], res)]
          /\ bucketSize' = IF res.err # "" THEN WithoutRemote(bucketSize, r) ELSE bucketSize
          /\ bucketFileCount' =
               IF res.err # "" THEN WithoutRemote(bucketFileCount, r) ELSE bucketFileCount
  /\ UNCHANGED <<now, nextTick, tickerC, sched, ctxs, world, sizeWriter, shutdown>>

NewFs(k, r) ==
  /\ units[k][r].pc = "NewFs"
  /\ \E ans \in OpenAnswers(r), noticed \in BOOLEAN :
       LET res == Returned(ctxs[k].err, noticed, ans, [err |-> ""])
       IN units' = [units EXCEPT ![k][r] = AfterNewFs(units[k][r], res)]
  /\ UNCHANGED <<now, nextTick, tickerC, sched, ctxs, bucketSize, bucketFileCount, world, sizeWriter, shutdown>>

(* a listing that also drops the samples of the buckets it does not name *)
ListDirPruning(k, r) ==
  /\ units[k][r].pc = "ListDir"
  /\ \E ans \in ListAnswers(r), noticed \in BOOLEAN :
       LET res == Returned(ctxs[k].err, noticed, ans, [err |-> "", dirs |-> <<>>])
           kept(g) == [x \in {y \in DOMAIN g :
                                 y[1] # r \/ \E n \in 1..Len(res.dirs) : res.dirs[n] = y[2]}
                         |-> g[x]]
       IN /\ units' = [units EXCEPT ![k][r] = AfterListDir(units[k][r], res)]
          /\ bucketSize' = IF res.err = "" THEN kept(bucketSize) ELSE bucketSize
          /\ bucketFileCount' = IF res.err = "" THEN kept(bucketFileCount) ELSE bucketFileCount
  /\ UNCHANGED <<now, nextTick, tickerC, sched, ctxs, world, sizeWriter, shutdown>>

ListDir(k, r) ==
  /\ units[k][r].pc = "ListDir"
  /\ \E ans \in ListAnswers(r), noticed \in BOOLEAN :
       LET res == Returned(ctxs[k].err, noticed, ans, [err |-> "", dirs |-> <<>>])
       IN units' = [units EXCEPT ![k][r] = AfterListDir(units[k][r], res)]
  /\ UNCHANGED <<now, nextTick, tickerC, sched, ctxs, bucketSize, bucketFileCount, world, sizeWriter, shutdown>>

(* a failed count that also drops the samples of the bucket *)
CountBucketDropping(k, r) ==
  /\ units[k][r].pc = "Count"
  /\ \E ans \in CountAnswers(r, units[k][r].dirs[units[k][r].i]), noticed \in BOOLEAN :
       LET res == Returned(ctxs[k].err, noticed, ans, [err |-> "", files |-> 0, size |-> 0])
           key == <<r, units[k][r].dirs[units[k][r].i]>>
       IN /\ units' = [units EXCEPT ![k][r] = AfterCount(units[k][r], res)]
          /\ bucketSize' = IF res.err # "" THEN Without(bucketSize, key) ELSE bucketSize
          /\ bucketFileCount' =
               IF res.err # "" THEN Without(bucketFileCount, key) ELSE bucketFileCount
  /\ UNCHANGED <<now, nextTick, tickerC, sched, ctxs, world, sizeWriter, shutdown>>

CountBucket(k, r) ==
  /\ units[k][r].pc = "Count"
  /\ \E ans \in CountAnswers(r, units[k][r].dirs[units[k][r].i]), noticed \in BOOLEAN :
       LET res == Returned(ctxs[k].err, noticed, ans, [err |-> "", files |-> 0, size |-> 0])
       IN units' = [units EXCEPT ![k][r] = AfterCount(units[k][r], res)]
  /\ UNCHANGED <<now, nextTick, tickerC, sched, ctxs, bucketSize, bucketFileCount, world, sizeWriter, shutdown>>

(* the two Set calls in the other order: the first one sets the file count *)
SetSizeWritingCount(k, r) ==
  LET u == units[k][r] IN
  /\ u.pc = "SetSize"
  /\ bucketFileCount' = SetGauge(bucketFileCount, <<r, u.dirs[u.i]>>, Float64(u.files))
  /\ units' = [units EXCEPT ![k][r].pc = "SetCount"]
  /\ sizeWriter' = (<<r, u.dirs[u.i]>> :> k) @@ sizeWriter
  /\ UNCHANGED <<now, nextTick, tickerC, sched, ctxs, bucketSize, world, shutdown>>

(* a size write that takes the key's file count back until it is set again *)
SetSizeResetting(k, r) ==
  LET u == units[k][r] IN
  /\ u.pc = "SetSize"
  /\ bucketSize' = SetGauge(bucketSize, <<r, u.dirs[u.i]>>, Float64(u.size))
  /\ bucketFileCount' = Without(bucketFileCount, <<r, u.dirs[u.i]>>)
  /\ units' = [units EXCEPT ![k][r].pc = "SetCount"]
  /\ sizeWriter' = (<<r, u.dirs[u.i]>> :> k) @@ sizeWriter
  /\ UNCHANGED <<now, nextTick, tickerC, sched, ctxs, world, shutdown>>

(* bucketSize.WithLabelValues(remote, bucketName).Set(float64(size)) *)
SetSize(k, r) ==
  LET u == units[k][r] IN
  /\ u.pc = "SetSize"
  /\ bucketSize' = SetGauge(bucketSize, <<r, u.dirs[u.i]>>, Float64(u.size))
  /\ units' = [units EXCEPT ![k][r].pc = "SetCount"]
  /\ sizeWriter' = (<<r, u.dirs[u.i]>> :> k) @@ sizeWriter
  /\ UNCHANGED <<now, nextTick, tickerC, sched, ctxs, bucketFileCount, world, shutdown>>

(* bucketFileCount.WithLabelValues(remote, bucketName).Set(float64(files)) *)
SetCount(k, r) ==
  LET u == units[k][r] IN
  /\ u.pc = "SetCount"
  /\ bucketFileCount' = SetGauge(bucketFileCount, <<r, u.dirs[u.i]>>, Float64(u.files))
  /\ units' = [units EXCEPT ![k][r] = Loop(u, u.i + 1)]
  /\ UNCHANGED <<now, nextTick, tickerC, sched, ctxs, bucketSize, world, sizeWriter, shutdown>>

(* ------------------------------------------------------------------ *)
(* The scheduler goroutine of main()                                  *)
(* ------------------------------------------------------------------ *)

(* ctxTimeout, cancel := context.WithTimeout(ctx, timeout) *)
WithTimeout(t) == [deadline |-> t + Timeout, err |-> ""]

(* cancel(): the first of cancel and deadline sets the context's error *)
Canceled(c) == IF c.err = "" THEN [c EXCEPT !.err = "context canceled"] ELSE c

(* the timer of a context fires at its deadline *)
Expired(c, t) ==
  IF c.err = "" /\ c.deadline <= t THEN [c EXCEPT !.err = "context deadline exceeded"] ELSE c

(* a loop that starts every goroutine on the first remote *)
LaunchTargetFirst(n) == Remotes[1]

(* updateRemotes: the remote whose goroutine the n-th iteration starts *)
LaunchTarget(n) == Remotes[n]

(* goroutines of round k that have not returned *)
Running(k) == {r \in RemoteSet : units[k][r].pc \notin {"none", "done", "failed"}}

Stale == UNION {{<<k, r>> : r \in Running(k)} : k \in Rounds}

(* a goroutine that has returned is gone *)
Reaped(us) ==
  [k \in Rounds |-> [r \in RemoteSet |-> IF us[k][r].pc \in {"done", "failed"} THEN Idle ELSE us[k][r]]]

(* "Run an update immediately" *)
FirstRound ==
  /\ sched.pc = "start"
  /\ ctxs' = Append(ctxs, WithTimeout(now))
  /\ sched' = [pc |-> "launch", round |-> 1, i |-> 1]
  /\ UNCHANGED <<now, nextTick, tickerC, units, bucketSize, bucketFileCount, world, sizeWriter, shutdown>>

(* a receive that leaves the tick in the channel *)
TickRoundKeepingTick ==
  /\ sched.pc = "select"
  /\ tickerC
  /\ sched.round < MaxRounds
  /\ Cardinality(Stale) <= MaxStale
  /\ ctxs' = Append(ctxs, WithTimeout(now))
  /\ sched' = [pc |-> "launch", round |-> sched.round + 1, i |-> 1]
  /\ units' = Reaped(units)
  /\ UNCHANGED <<now, nextTick, tickerC, bucketSize, bucketFileCount, world, sizeWriter, shutdown>>

(* case <-ticker.C *)
TickRound ==
  /\ sched.pc = "select"
  /\ tickerC
  /\ sched.round < MaxRounds
  /\ Cardinality(Stale) <= MaxStale
  /\ tickerC' = FALSE
  /\ ctxs' = Append(ctxs, WithTimeout(now))
  /\ sched' = [pc |-> "launch", round |-> sched.round + 1, i |-> 1]
  /\ units' = Reaped(units)
  /\ UNCHANGED <<now, nextTick, bucketSize, bucketFileCount, world, sizeWriter, shutdown>>

(* updateRemotes: one go statement; after the last one the call returns *)
Launch ==
  /\ sched.pc = "launch"
  /\ units' = [units EXCEPT ![sched.round][LaunchTarget(sched.i)] = Started]
  /\ sched' = IF sched.i < Len(Remotes) THEN [sched EXCEPT !.i = sched.i + 1]
              ELSE [sched EXCEPT !.pc = "cancel", !.i = 0]
  /\ UNCHANGED <<now, nextTick, tickerC, ctxs, bucketSize, bucketFileCount, world, sizeWriter, shutdown>>

(* cancel() *)
Cancel ==
  /\ sched.pc = "cancel"
  /\ ctxs' = [ctxs EXCEPT ![sched.round] = Canceled(ctxs[sched.round])]
  /\ sched' = [sched EXCEPT !.pc = "select"]
  /\ UNCHANGED <<now, nextTick, tickerC, units, bucketSize, bucketFileCount, world, sizeWriter, shutdown>>

(* ------------------------------------------------------------------ *)
(* Time                                                               *)
(* ------------------------------------------------------------------ *)

(* the next instant at which the ticker or a context timer fires *)
NextEvent ==
  Min({nextTick} \cup {ctxs[k].deadline : k \in {j \in 1..Len(ctxs) : ctxs[j].deadline > now}})

(* the clock reaches the next instant: the ticker sends on its channel of
   capacity 1 (a tick is dropped when one is pending), contexts expire *)
Advance ==
  /\ NextEvent <= Horizon
  /\ now' = NextEvent
  /\ tickerC' = (tickerC \/ NextEvent = nextTick)
  /\ nextTick' = IF NextEvent = nextTick THEN nextTick + Period ELSE nextTick
  /\ ctxs' = [k \in 1..Len(ctxs) |-> Expired(ctxs[k], NextEvent)]
  /\ UNCHANGED <<sched, units, bucketSize, bucketFileCount, world, sizeWriter, shutdown>>

(* ------------------------------------------------------------------ *)

InitCommon ==
  /\ now = 0
  /\ nextTick = Period
  /\ tickerC = FALSE
  /\ sched = [pc |-> "start", round |-> 0, i |-> 0]
  /\ ctxs = <<>>
  /\ units = [k \in Rounds |-> [r \in RemoteSet |-> Idle]]
  /\ bucketSize = <<>>
  /\ bucketFileCount = <<>>
  /\ sizeWriter = <<>>
  /\ shutdown = FALSE

(* any backend *)
Init == InitCommon /\ world = "any"

Next ==
  \/ FirstRound
  \/ TickRound
  \/ Launch
  \/ Cancel
  \/ Advance
  \/ \E k \in Rounds, r \in RemoteSet : NewFs(k, r)
  \/ \E k \in Rounds, r \in RemoteSet : ListDir(k, r)
  \/ \E k \in Rounds, r \in RemoteSet : CountBucket(k, r)
  \/ \E k \in Rounds, r \in RemoteSet : SetSize(k, r)
  \/ \E k \in Rounds, r \in RemoteSet : SetCount(k, r)

Spec == Init /\ [][Next]_vars

(* the scenario backend: "a:" lists "x" with 10 objects and 1000 bytes,
   "b:" cannot be opened *)
InitScenario == InitCommon /\ world = "scenario"

SpecScenario == InitScenario /\ [][Next]_vars

(* backends on which every call would succeed *)
InitHealthy == InitCommon /\ world = "healthy"

SpecHealthy == InitHealthy /\ [][Next]_vars

(* The steps of goroutine (k, r) that are bound to happen: a collaborator
   that honors cancellation returns once the context it was given is done,
   and the Set calls do not block. *)
UnitSteps(k, r) ==
  \/ (NewFs(k, r) \/ ListDir(k, r) \/ CountBucket(k, r)) /\ ctxs[k].err # ""
  \/ SetSize(k, r)
  \/ SetCount(k, r)

(* the scheduler goroutine and the unit goroutines get to run, and time passes *)
Fairness ==
  /\ WF_vars(Launch)
  /\ WF_vars(Cancel)
  /\ WF_vars(Advance)
  /\ \A k \in Rounds, r \in RemoteSet : WF_vars(UnitSteps(k, r))

(* backends on which "b:" cannot be opened and every other call would succeed *)
InitOutage == InitCommon /\ world = "outage"

SpecFair == InitOutage /\ [][Next]_vars /\ Fairness

(* A shutdown signal that does not kill the process.  main's context is
   context.Background() and the program subscribes to no signal, so nothing
   cancels the context the scheduler selects on: no program state changes
   and "case <-ctx.Done()" stays disabled. *)
Signal ==
  /\ ~shutdown
  /\ shutdown' = TRUE
  /\ UNCHANGED <<now, nextTick, tickerC, sched, ctxs, units, bucketSize, bucketFileCount,
                 world, sizeWriter>>

NextWithSignal == Next \/ Signal

SpecShutdown == InitScenario /\ [][NextWithSignal]_vars

(* ------------------------------------------------------------------ *)
(* Properties                                                         *)
(* ------------------------------------------------------------------ *)

(* the goroutine (k, r) takes a step *)
Moved(k, r) == units'[k][r] # units[k][r]

(* the bucket the goroutine (k, r) is working on *)
KeyOf(k, r) == <<r, units[k][r].dirs[units[k][r].i]>>

(* the sample of a key: <<value>>, or <<>> when the key has no sample *)
SampleOf(g, key) == IF key \in DOMAIN g THEN <<g[key]>> ELSE <<>>

(* the step in which opening or counting the current bucket fails *)
CountFailedStep(k, r) ==
  units[k][r].pc = "Count" /\ Moved(k, r) /\ units'[k][r].pc # "SetSize"

(* the step in which opening or listing the remote fails *)
RemoteFailedStep(k, r) ==
  units[k][r].pc \in {"NewFs", "ListDir"} /\ units'[k][r].pc = "failed"

(* C1: while goroutines of a round are running and the round's deadline
   (launch time + timeout) has not elapsed, the round's context is not
   canceled. *)
C1_ContextLivesToDeadline ==
  \A k \in 1..Len(ctxs) :
    (Running(k) # {} /\ now < ctxs[k].deadline) => ctxs[k].err = ""

(* C2: a failed measurement of a bucket leaves the samples of its key as they
   were, present with the same values or absent; a successful measurement
   writes the key whether or not it had a sample. *)
C2_FailureKeepsSample ==
  [][\A k \in Rounds, r \in RemoteSet :
       /\ CountFailedStep(k, r) =>
            /\ SampleOf(bucketSize', KeyOf(k, r)) = SampleOf(bucketSize, KeyOf(k, r))
            /\ SampleOf(bucketFileCount', KeyOf(k, r)) = SampleOf(bucketFileCount, KeyOf(k, r))
       /\ (units[k][r].pc = "SetSize" /\ Moved(k, r)) =>
            SampleOf(bucketSize', KeyOf(k, r)) = <<units[k][r].size>>
       /\ (units[k][r].pc = "SetCount" /\ Moved(k, r)) =>
            SampleOf(bucketFileCount', KeyOf(k, r)) = <<units[k][r].files>>]_vars

(* C2 witness: a goroutine of the second round has failed on its first
   bucket, and the key of that bucket still has the samples of an earlier
   round. *)
C2_Witness ==
  \E r \in RemoteSet :
    /\ units[2][r].pc = "Count" /\ units[2][r].i = 2 /\ units[2][r].fails = 1
    /\ <<r, units[2][r].dirs[1]>> \in DOMAIN bucketSize
    /\ <<r, units[2][r].dirs[1]>> \in DOMAIN bucketFileCount

(* C3: a bucket that fails changes no sample at all and does not end the
   loop: the goroutine goes on to the next listed bucket with the same
   listing, and a bucket measured after a failed one is written. *)
C3_FailureIsIsolated ==
  [][\A k \in Rounds, r \in RemoteSet :
       /\ CountFailedStep(k, r) =>
            /\ bucketSize' = bucketSize
            /\ bucketFileCount' = bucketFileCount
            /\ IF units[k][r].i < Len(units[k][r].dirs)
               THEN /\ units'[k][r].pc = "Count"
                    /\ units'[k][r].dirs = units[k][r].dirs
                    /\ units'[k][r].i = units[k][r].i + 1
               ELSE units'[k][r].pc = "done"
       /\ (units[k][r].pc = "SetSize" /\ units[k][r].fails > 0 /\ Moved(k, r)) =>
            /\ KeyOf(k, r) \in DOMAIN bucketSize'
            /\ units'[k][r].pc = "SetCount"
       /\ (units[k][r].pc = "SetCount" /\ units[k][r].fails > 0 /\ Moved(k, r)) =>
            KeyOf(k, r) \in DOMAIN bucketFileCount']_vars

(* C3 witness: the first listed bucket failed and the second one has its
   size written by the same goroutine. *)
C3_Witness ==
  \E k \in Rounds, r \in RemoteSet :
    /\ units[k][r].pc = "SetCount" /\ units[k][r].i = 2 /\ units[k][r].fails = 1
    /\ <<r, units[k][r].dirs[1]>> \notin DOMAIN bucketSize
    /\ bucketSize[<<r, units[k][r].dirs[2]>>] = units[k][r].size

(* C4: when opening or listing the remote fails, the step writes nothing to
   either gauge vector and no other goroutine is touched. *)
C4_RemoteFailureWritesNothing ==
  [][\A k \in Rounds, r \in RemoteSet :
       RemoteFailedStep(k, r) =>
         /\ bucketSize' = bucketSize
         /\ bucketFileCount' = bucketFileCount
         /\ \A k2 \in Rounds, r2 \in RemoteSet :
              <<k2, r2>> # <<k, r>> => units'[k2][r2] = units[k2][r2]]_vars

(* C4 witness: a remote has failed in a round, its samples of an earlier
   round are still there, and the goroutine of the other remote of the same
   round is publishing. *)
C4_Witness ==
  \E k \in Rounds, r \in RemoteSet, r2 \in RemoteSet :
    /\ r2 # r
    /\ units[k][r].pc = "failed"
    /\ \E b \in BucketSet(r) : <<r, b>> \in DOMAIN bucketFileCount
    /\ units[k][r2].pc = "SetCount"

(* C5: the values a goroutine holds after a successful count are a result of
   the backend for that bucket, and each write leaves the gauge of the key
   equal to the value held: it replaces the previous value. *)
C5_GaugeEqualsMeasurement ==
  [][\A k \in Rounds, r \in RemoteSet :
       /\ (units[k][r].pc = "Count" /\ units'[k][r].pc = "SetSize") =>
            [files |-> units'[k][r].files, size |-> units'[k][r].size]
              \in Vals(r, units[k][r].dirs[units[k][r].i])
       /\ (units[k][r].pc = "SetSize" /\ Moved(k, r)) =>
            /\ bucketSize'[KeyOf(k, r)] = units[k][r].size
            /\ units'[k][r].files = units[k][r].files
       /\ (units[k][r].pc = "SetCount" /\ Moved(k, r)) =>
            /\ bucketFileCount'[KeyOf(k, r)] = units[k][r].files
            /\ bucketSize' = bucketSize]_vars

(* C5 witness: in the second round "x" of "a:" reads (12, 1200) after the
   goroutine of that round has processed it. *)
C5_Witness ==
  /\ units[2]["a:"].pc = "Count" /\ units[2]["a:"].i = 2
  /\ units[2]["a:"].dirs[1] = "x" /\ units[2]["a:"].fails = 0
  /\ Running(1) = {}
  /\ bucketSize[<<"a:", "x">>] = 1200
  /\ bucketFileCount[<<"a:", "x">>] = 12

(* C6: while the scheduler waits on the ticker, every goroutine of the round
   it launched last has returned. *)
C6_WaitsForRound ==
  sched.pc = "select" => Running(sched.round) = {}

(* C6 as amended: when the scheduler waits on the ticker, a goroutine has
   been started for every configured remote of the round; the scheduler
   does not wait for them to return. *)
C6_LaunchedBeforeWaiting ==
  sched.pc \in {"cancel", "select"} =>
    \A r \in RemoteSet : units[sched.round][r].pc # "none"

(* C6 witness: the scheduler waits on the ticker while both goroutines of
   the round are still running. *)
C6_Witness ==
  sched.pc = "select" /\ Running(sched.round) = RemoteSet

(* C7: on healthy backends, after the deadline has cost a goroutine one
   bucket, the buckets it processes afterwards are still measured. *)
C7_DeadlineAbandonsOneBucket ==
  [][\A k \in Rounds, r \in RemoteSet :
       (/\ units[k][r].pc = "Count"
        /\ units[k][r].fails > 0
        /\ ctxs[k].err = "context deadline exceeded"
        /\ Moved(k, r)) => units'[k][r].pc = "SetSize"]_vars

(* C8: on healthy backends, while the goroutine of one remote sits in a call
   that does not return and the deadline of the round has not elapsed, the
   goroutines of the other remotes of the round lose no measurement. *)
C8_HangBlocksNothing ==
  \A k \in 1..Len(ctxs), r \in RemoteSet, r2 \in RemoteSet :
    (/\ r2 # r
     /\ units[k][r].pc \in {"NewFs", "ListDir", "Count"}
     /\ now < ctxs[k].deadline)
    => (units[k][r2].pc # "failed" /\ units[k][r2].fails = 0)

(* C9: no gauge is written by a goroutine whose context is done. *)
C9_NoWriteAfterDone ==
  [][\A k \in Rounds, r \in RemoteSet :
       (units[k][r].pc \in {"SetSize", "SetCount"} /\ Moved(k, r)) => ctxs[k].err = ""]_vars

(* C10: in the scenario, once both goroutines of the first round have
   returned within the timeout, "x" of "a:" reads 10 files and 1000 bytes
   and "b:" has no sample. *)
C10_ScenarioAfterFirstRound ==
  (/\ sched.round = 1
   /\ sched.pc = "select"
   /\ \A r \in RemoteSet : units[1][r].pc \in {"done", "failed"}
   /\ now < ctxs[1].deadline)
  => /\ SampleOf(bucketFileCount, <<"a:", "x">>) = <<10>>
     /\ SampleOf(bucketSize, <<"a:", "x">>) = <<1000>>
     /\ \A key \in DOMAIN bucketSize \cup DOMAIN bucketFileCount : key[1] # "b:"

(* C11: the scheduler never waits on the ticker before its first round; a
   round is started only at startup or by receiving one tick, which the
   receive takes out of the channel; each go statement of a round starts one
   goroutine, for a remote that has none in this round, and when
   updateRemotes returns every configured remote has one. *)
C11_OneRoundPerTick ==
  [][/\ sched'.pc = "select" => sched'.round >= 1
     /\ sched'.round # sched.round =>
          /\ sched'.round = sched.round + 1
          /\ sched'.pc = "launch" /\ sched'.i = 1
          /\ \/ sched.pc = "start" /\ sched.round = 0
             \/ sched.pc = "select" /\ tickerC /\ ~tickerC'
     /\ (sched.pc = "launch" /\ sched' # sched) =>
          /\ sched'.round = sched.round
          /\ \E r \in RemoteSet :
               /\ r = Remotes[sched.i]
               /\ units[sched.round][r].pc = "none"
               /\ units'[sched.round][r].pc = "NewFs"
               /\ \A k \in Rounds, r2 \in RemoteSet :
                    <<k, r2>> # <<sched.round, r>> => units'[k][r2] = units[k][r2]
          /\ sched'.pc = "cancel" =>
               \A r \in RemoteSet : units'[sched.round][r].pc # "none"
     /\ (sched.pc # "launch") =>
          \A k \in Rounds, r \in RemoteSet :
            units[k][r].pc = "none" => units'[k][r].pc = "none"]_vars

(* C11 witness: the second round has been started by the tick, which is no
   longer in the channel, and has a goroutine for each remote. *)
C11_Witness ==
  /\ sched.round = 2 /\ sched.pc = "select" /\ ~tickerC
  /\ \A r \in RemoteSet : units[2][r].pc # "none"

(* C14: no step removes a key from a gauge vector; a key gets its first
   sample only from the Set call of a goroutine that has counted that bucket
   successfully; a goroutine that finishes the Set calls of a measurement
   leaves the key with both samples; and a step that writes nothing (a
   listing that no longer names the bucket included) leaves every sample as
   it was. *)
C14_KeysAreTheMeasuredPairs ==
  [][/\ DOMAIN bucketSize \subseteq DOMAIN bucketSize'
     /\ DOMAIN bucketFileCount \subseteq DOMAIN bucketFileCount'
     /\ \A key \in DOMAIN bucketSize' \ DOMAIN bucketSize :
          \E k \in Rounds, r \in RemoteSet :
            /\ units[k][r].pc = "SetSize" /\ Moved(k, r) /\ KeyOf(k, r) = key
            /\ [files |-> units[k][r].files, size |-> units[k][r].size] \in Vals(r, key[2])
     /\ \A key \in DOMAIN bucketFileCount' \ DOMAIN bucketFileCount :
          \E k \in Rounds, r \in RemoteSet :
            /\ units[k][r].pc = "SetCount" /\ Moved(k, r) /\ KeyOf(k, r) = key
            /\ [files |-> units[k][r].files, size |-> units[k][r].size] \in Vals(r, key[2])
     /\ \A k \in Rounds, r \in RemoteSet :
          (units[k][r].pc = "SetCount" /\ Moved(k, r)) =>
            KeyOf(k, r) \in DOMAIN bucketSize' \cap DOMAIN bucketFileCount'
     /\ (\A k \in Rounds, r \in RemoteSet :
           ~(units[k][r].pc \in {"SetSize", "SetCount"} /\ Moved(k, r))) =>
          (bucketSize' = bucketSize /\ bucketFileCount' = bucketFileCount)]_vars

(* C14 witness: the second round's listing of a: no longer names bucket y,
   that round's goroutine has gone on to publish bucket x, and y still has
   the samples the first round gave it. *)
C14_Witness ==
  /\ units[2]["a:"].pc = "SetCount" /\ units[2]["a:"].dirs = <<"x">>
  /\ <<"a:", "y">> \in DOMAIN bucketSize \cap DOMAIN bucketFileCount
  /\ bucketSize[<<"a:", "y">>] = 500 /\ bucketFileCount[<<"a:", "y">>] = 5

(* C15: a goroutine that gets the answer the registry already shows changes
   nothing: a Set call whose value is the value the key has leaves both
   gauge vectors as they were, and so does every step that is not a Set
   call (an open, a listing or a count, failed or not). A round that gets
   the answers of the round before it therefore leaves the registry as that
   round left it. *)
C15_SameAnswersSameRegistry ==
  [][/\ \A k \in Rounds, r \in RemoteSet :
          /\ ( /\ units[k][r].pc = "SetSize" /\ Moved(k, r)
               /\ SampleOf(bucketSize, KeyOf(k, r)) = <<Float64(units[k][r].size)>> )
             => (bucketSize' = bucketSize /\ bucketFileCount' = bucketFileCount)
          /\ ( /\ units[k][r].pc = "SetCount" /\ Moved(k, r)
               /\ SampleOf(bucketFileCount, KeyOf(k, r)) = <<Float64(units[k][r].files)>> )
             => (bucketSize' = bucketSize /\ bucketFileCount' = bucketFileCount)
          /\ (units[k][r].pc \in {"NewFs", "ListDir", "Count"} /\ Moved(k, r))
             => (bucketSize' = bucketSize /\ bucketFileCount' = bucketFileCount)
     /\ (units' = units) => (bucketSize' = bucketSize /\ bucketFileCount' = bucketFileCount)]_vars

(* C15 witness: the first round has finished and left a:x at 10 files and
   1000 bytes beside other keys; the second round's goroutine has counted
   the same, has set the size again and is about to set the file count
   again. *)
C15_Witness ==
  /\ Running(1) = {}
  /\ units[2]["a:"].pc = "SetCount" /\ units[2]["a:"].i = 1
  /\ units[2]["a:"].size = 1000 /\ units[2]["a:"].files = 10
  /\ DOMAIN bucketFileCount = {<<"a:", "x">>, <<"a:", "y">>, <<"b:", "x">>}
  /\ DOMAIN bucketSize = DOMAIN bucketFileCount
  /\ bucketSize[<<"a:", "x">>] = 1000 /\ bucketFileCount[<<"a:", "x">>] = 10

(* C16: a goroutine opens its remote once, when it is started for the
   current round; lists it once, right after the open; visits the listed
   buckets in order, each once, going on to the next bucket after a failed
   as after a successful count; and once it has returned it does nothing
   more. A step that failed is tried again only by a goroutine of a later
   round. *)
C16_NoRetryInARound ==
  [][\A k \in Rounds, r \in RemoteSet :
       LET u == units[k][r]
           v == units'[k][r]
       IN Moved(k, r) =>
            /\ v.pc = "NewFs" => (u.pc = "none" /\ sched.pc = "launch" /\ k = sched.round)
            /\ v.pc = "ListDir" => u.pc = "NewFs"
            /\ v.pc = "Count" =>
                 \/ u.pc = "ListDir" /\ v.i = 1
                 \/ u.pc \in {"Count", "SetCount"} /\ v.i = u.i + 1 /\ v.dirs = u.dirs
            /\ v.pc = "SetSize" => (u.pc = "Count" /\ v.i = u.i /\ v.dirs = u.dirs)
            /\ v.pc = "SetCount" => (u.pc = "SetSize" /\ v.i = u.i /\ v.dirs = u.dirs)
            /\ v.pc \in {"done", "failed"} => u.pc \in {"NewFs", "ListDir", "Count", "SetCount"}
            /\ u.pc \in {"done", "failed"} => v.pc = "none"
            /\ \A m, n \in 1..Len(v.dirs) : v.dirs[m] = v.dirs[n] => m = n]_vars

(* C16 witness: in the first round the open of b: has failed and that
   goroutine has returned, and the goroutine of a: has failed on bucket x and
   gone on to bucket y. *)
C16_Witness ==
  /\ sched.round = 1
  /\ units[1]["b:"].pc = "failed"
  /\ units[1]["a:"].pc = "Count" /\ units[1]["a:"].i = 2 /\ units[1]["a:"].fails = 1

(* C17: once a goroutine of a later round has written a key, no goroutine
   of an earlier round writes that key: every Set call on a key comes from a
   round at least as late as the round that set the key's size last. *)
C17_WritesInRoundOrder ==
  [][\A k \in Rounds, r \in RemoteSet :
       (units[k][r].pc \in {"SetSize", "SetCount"} /\ Moved(k, r)) =>
         (KeyOf(k, r) \in DOMAIN sizeWriter => sizeWriter[KeyOf(k, r)] <= k)]_vars

(* C18: a key that has a file-count sample has a size sample; the goroutine
   that sets a key's size goes on, without any other step of its own, to set
   the same key's file count to the count of the same measurement; and when
   it has done so, both samples of the key are the values of that
   measurement, unless a goroutine of another round has set the key's size
   in between. *)
C18_SizeThenCount ==
  [][/\ DOMAIN bucketFileCount' \subseteq DOMAIN bucketSize'
     /\ \A k \in Rounds, r \in RemoteSet :
          LET u == units[k][r]
              v == units'[k][r]
          IN /\ (u.pc = "SetSize" /\ Moved(k, r)) =>
                  /\ v = [u EXCEPT !.pc = "SetCount"]
                  /\ bucketSize'[KeyOf(k, r)] = Float64(u.size)
                  /\ bucketFileCount' = bucketFileCount
             /\ (u.pc = "SetCount" /\ Moved(k, r)) =>
                  /\ bucketFileCount'[KeyOf(k, r)] = Float64(u.files)
                  /\ bucketSize' = bucketSize
                  /\ sizeWriter[KeyOf(k, r)] = k =>
                       bucketSize'[KeyOf(k, r)] = Float64(u.size)
             /\ (Moved(k, r) /\ bucketFileCount' # bucketFileCount) => u.pc = "SetCount"]_vars

(* C18 witness: between the two Set calls of b:'s goroutine the key b:x has a
   size and no file count yet, while a:'s goroutine has published both
   samples of a:x from one measurement and moved on to bucket y. *)
C18_Witness ==
  /\ units[1]["b:"].pc = "SetCount"
  /\ <<"b:", "x">> \in DOMAIN bucketSize \ DOMAIN bucketFileCount
  /\ units[1]["a:"].pc = "Count" /\ units[1]["a:"].i = 2 /\ units[1]["a:"].fails = 0
  /\ bucketSize[<<"a:", "x">>] = 1200 /\ bucketFileCount[<<"a:", "x">>] = 12

(* C13: after a shutdown signal the scheduler, waiting in its loop, starts
   no further round on a tick it receives. *)
C13_NoRoundAfterShutdown ==
  [][(shutdown /\ sched.pc = "select") => sched'.round = sched.round]_vars

(* C12: with collaborators that return once their context is done, every
   goroutine that has been started returns. *)
C12_UnitsTerminate ==
  \A k \in Rounds, r \in RemoteSet :
    (units[k][r].pc \notin {"none", "done", "failed"})
      ~> (units[k][r].pc \in {"none", "done", "failed"})

(* C12 witness: a goroutine of the first round whose context is done has
   failed one bucket on it and is on the next bucket of its listing, while
   the second round is already running. *)
C12_Witness ==
  /\ sched.round = 2
  /\ ctxs[1].err # ""
  /\ units[1]["a:"].pc = "Count" /\ units[1]["a:"].i = 2 /\ units[1]["a:"].fails = 1

====
